---- MODULE Spec2Model ----
(***************************************************************************)
(* Model of the FPGALink PCIe driver's DMA ring (src/driver/fpgalink.c):   *)
(* the ring counters of struct AlteraDevice, the interrupt handler        *)
(* serviceInterrupt, the read path cdevRead, the control path cdevIOCtl    *)
(* and the descriptor submitter submitDmaReq, together with the device    *)
(* at the other end of BAR0.                                               *)
(*                                                                         *)
(* Granularity.  A section of code that runs under ape->lock              *)
(* (spin_lock_irqsave) is one step.  cdevRead is split at the points where *)
(* it runs unlocked: entry, the wait, copy_to_user, the locked update.    *)
(* cdevIOCtl executes one command of its list per step.                   *)
(***************************************************************************)
EXTENDS Integers, Sequences, FiniteSets, TLC

\* ------------------------------------------------------------ constants

\* #define NUM_BUFS 32
NUM_BUFS == 32

\* BUF_SIZE comes from ioctl_defs.h; the design fixes it at 4096 bytes.
BUF_SIZE == 4096

\* Width of the ring counters.  They are u32 in the driver; TLC's integers
\* are 32-bit signed, so the wrap-around is modelled at 30 bits.  NUM_BUFS
\* divides 2^30, so every masked index is the same as at 32 bits.
WordBits == 30

\* Bus address of slot 0 (ape->bufferArrayBus, set by pci_alloc_consistent).
bufferArrayBus == 1048576

\* Word offsets of the DMA registers in BAR0.
DMABASE == 0 * 2 + 1
DMACTRL == 1 * 2 + 1

\* Op-codes of struct Cmd (ioctl_defs.h).
OP_RD == "OP_RD"
OP_WR == "OP_WR"
OP_SD == "OP_SD"

\* ------------------------------------------------------------ bounds

\* Frames the device completes in one behaviour (more than one lap of the ring).
MaxFrames == 34

\* Highest register number a command names (0 and 1 are the DMA registers).
MaxReg == 3

\* Largest value a WRITE command carries.
MaxVal == 1

\* Outside intended usage: frames completed, read calls returned, handler
\* calls after which the shared line no longer fires.
MaxFaultFrames == 3
MaxFaultReads == 2
MaxFaultServiced == 2

\* Without START: descriptors outstanding past which no further control call
\* is made.
MaxNoStartQueue == 2

\* Open/close cycles: opens in one behaviour, frames the device completes.
MaxOpens == 2
MaxReopenFrames == 4

\* ------------------------------------------------------------ state

VARIABLES
    numAvailable,     \* ape->numAvailable
    numSubmitted,     \* ape->numSubmitted
    outIndex,         \* ape->outIndex
    bar0,             \* the device's register file, by word offset
    bufferArrayVirt,  \* slot -> frame number held in it (0: never written)
    devQueue,         \* descriptors outstanding at the device, oldest first
    irqPending,       \* completions whose interrupt has not been serviced
    produced,         \* frames the device has completed
    opened,           \* the character device has been opened
    rd,               \* the thread inside cdevRead
    io,               \* the thread inside cdevIOCtl
    delivered,        \* frames returned by successful read calls, in order
    serviced,         \* serviceInterrupt calls since the last START
    nStart,           \* START commands executed
    wrapped,          \* some counter has wrapped around
    lastOp,           \* the handler step taken last
    probe,            \* pcieProbe / pcieRemove: position, resources held and released
    rdOther,          \* a second thread inside cdevRead, while it is not running
    wq,               \* ape->wq: the reader's state on it, and a wake-up in progress
    session           \* opens so far; frames produced and delivered at the last START

vars == <<numAvailable, numSubmitted, outIndex, bar0, bufferArrayVirt, devQueue,
          irqPending, produced, opened, rd, io, delivered, serviced, nStart,
          wrapped, lastOp, probe, rdOther, wq, session>>

\* The state that only some operations touch.
aux == <<probe, rdOther, wq, session>>

ring == <<numAvailable, numSubmitted, outIndex>>

\* ------------------------------------------------------------ helpers

U32Modulus == 2 ^ WordBits

U32(x) == x % U32Modulus

\* x & (NUM_BUFS - 1), NUM_BUFS a power of two
MaskIndex(x) == x % NUM_BUFS

Slots == 0 .. (NUM_BUFS - 1)

Regs == 0 .. MaxReg

\* reg = 1 + kc.reg * 2, in u32
RegOffset(reg) == U32(1 + reg * 2)

Offsets == { RegOffset(r) : r \in Regs }

\* ape->bufferArrayBus + index * sizeof(struct Buffer)
SlotAddr(index) == U32(bufferArrayBus + index * BUF_SIZE)

\* BUF_SIZE/128
NumTLPs == BUF_SIZE \div 128

\* The slot a descriptor's address falls in, or -1 outside the pool.
SlotOf(addr) ==
    IF addr >= bufferArrayBus /\ addr < bufferArrayBus + NUM_BUFS * BUF_SIZE
    THEN (addr - bufferArrayBus) \div BUF_SIZE
    ELSE -1

\* The device's reaction to a register write: a write of the control
\* register queues a transfer to the address in the base register.
DeviceOnWrite(hw, off) ==
    IF off = DMACTRL
    THEN [hw EXCEPT !.q = Append(@, [addr |-> hw.bar[DMABASE], tlps |-> hw.bar[DMACTRL]])]
    ELSE hw

\* iowrite32(val, regSpace + off); hw = [bar, q]
iowrite32(hw, val, off) ==
    DeviceOnWrite([hw EXCEPT !.bar[off] = val], off)

\* submitDmaReq(ape, addr, numTLPs)
submitDmaReq(hw, addr, numTLPs) ==
    iowrite32(iowrite32(hw, U32(addr), DMABASE), numTLPs, DMACTRL)

HW == [bar |-> bar0, q |-> devQueue]

\* ------------------------------------------------------------ initial state

RdIdle == [pc |-> "idle", count |-> 0, ret |-> "none", sig |-> FALSE, rc |-> 0, buf |-> 0]

IoIdle == [pc |-> "idle", cmds |-> <<>>, i |-> 0, ret |-> "none"]

\* The resources pcieProbe acquires, in the order it acquires them.
Acquired == <<"ape", "device", "msi", "regions", "irq", "bars", "pool", "chrdev", "cdev">>

\* pcieProbe has returned 0.  init_waitqueue_head has run; the file holds no
\* spin_lock_init for ape->lock.
\* got: resources acquired, in order; held: those not yet released; released:
\* releases, in order; todo: releases the current unwind or remove has left.
ProbeBound ==
    [pc |-> "bound", next |-> 0, got |-> Acquired, held |-> Acquired,
     released |-> <<>>, todo |-> <<>>, rc |-> 0, alreadyInUse |-> FALSE,
     wqInit |-> TRUE, lockInit |-> FALSE]

\* Nobody on the wait queue, no wake-up in progress.
WqIdle == [task |-> "none", waking |-> FALSE]

\* opens: calls of open; started: START executed since the last open; mark,
\* base: frames produced and delivered at the last START; isr, queued: handler
\* calls and descriptors queued so far, as START's steps found them.
SessionNone ==
    [opens |-> 0, started |-> FALSE, mark |-> 0, base |-> 0, isr |-> 0, queued |-> 0]

\* kzalloc() zeroes struct AlteraDevice; the device is idle after reset.
Init ==
    /\ numAvailable = 0
    /\ numSubmitted = 0
    /\ outIndex = 0
    /\ bar0 = [o \in Offsets |-> 0]
    /\ bufferArrayVirt = [s \in Slots |-> 0]
    /\ devQueue = <<>>
    /\ irqPending = 0
    /\ produced = 0
    /\ opened = FALSE
    /\ rd = RdIdle
    /\ io = IoIdle
    /\ delivered = <<>>
    /\ serviced = 0
    /\ nStart = 0
    /\ wrapped = FALSE
    /\ lastOp = "probe"
    /\ probe = ProbeBound
    /\ rdOther = RdIdle
    /\ wq = WqIdle
    /\ session = SessionNone


\* ------------------------------------------------------------ the device

\* The device finishes the oldest outstanding descriptor: it writes the next
\* frame to the slot the descriptor addresses and raises one MSI.
DeviceComplete ==
    /\ devQueue # <<>>
    /\ LET slot == SlotOf(Head(devQueue).addr)
       IN bufferArrayVirt' = IF slot \in Slots
                             THEN [bufferArrayVirt EXCEPT ![slot] = produced + 1]
                             ELSE bufferArrayVirt
    /\ devQueue' = Tail(devQueue)
    /\ produced' = produced + 1
    /\ irqPending' = irqPending + 1
    /\ lastOp' = "DeviceComplete"
    /\ UNCHANGED aux
    /\ UNCHANGED <<numAvailable, numSubmitted, outIndex, bar0, opened, rd, io,
                   delivered, serviced, nStart, wrapped>>

\* ------------------------------------------------------------ serviceInterrupt

\* submitCount = NUM_BUFS - ape->numAvailable - ape->numSubmitted
SubmitCount(avail, subm) == U32(NUM_BUFS - avail - subm)

\* A refill that starts at outIndex, inside the Available region.
SubmitIndexNoAvail(out, avail) == MaskIndex(out)

\* submitIndex = ape->outIndex + ape->numAvailable; submitIndex &= NUM_BUFS - 1
SubmitIndex(out, avail) == MaskIndex(U32(out + avail))

\* The slot the k-th pass of the refill loop submits, k = 1 .. submitCount:
\* submitIndex++; submitIndex &= NUM_BUFS - 1 after each pass.
RefillSlot(submitIndex, k) == MaskIndex(U32(submitIndex + (k - 1)))

\* while ( submitCount-- ) { submitDmaReq(...); submitIndex++; submitIndex &= ...;
\*                           ape->numSubmitted++; }
\* The loop's effect after all its passes.  Each pass is one submitDmaReq: it
\* overwrites the two DMA registers and queues one descriptor, so the registers
\* end as the last pass leaves them and the queue grows by one descriptor per
\* pass, in the order of the passes.
RefillLoop(submitCount, submitIndex, subm, hw) ==
    IF submitCount = 0
    THEN [numSubmitted |-> subm, hw |-> hw]
    ELSE LET pass(k) == submitDmaReq([hw EXCEPT !.q = <<>>],
                                     SlotAddr(RefillSlot(submitIndex, k)), NumTLPs)
         IN [numSubmitted |-> U32(subm + submitCount),
             hw |-> [bar |-> pass(submitCount).bar,
                     q   |-> hw.q \o [k \in 1 .. submitCount |-> pass(k).q[1]]]]

\* A handler that does not credit the completed frame.
CreditAvailableNone(avail) == avail

\* ape->numAvailable++; ape->numSubmitted--
CreditAvailable(avail) == U32(avail + 1)
CreditSubmitted(subm) == U32(subm - 1)

\* A handler that wakes nobody.
WakeUpNone(q) == q

\* wake_up_interruptible(&ape->wq): a task sleeping on the queue is made
\* runnable; with nobody asleep the call does nothing.
WakeUp(q) == IF q.task = "queued" THEN [q EXCEPT !.task = "woken"] ELSE q

\* The handler's locked section, from spin_lock_irqsave to
\* spin_unlock_irqrestore.
serviceInterrupt_locked ==
    LET avail == CreditAvailable(numAvailable)
        subm  == CreditSubmitted(numSubmitted)
        r     == RefillLoop(SubmitCount(avail, subm), SubmitIndex(outIndex, avail),
                            subm, HW)
    IN /\ numAvailable' = avail
       /\ numSubmitted' = r.numSubmitted
       /\ bar0' = r.hw.bar
       /\ devQueue' = r.hw.q
       /\ wrapped' = (wrapped \/ numSubmitted = 0 \/ numAvailable = U32Modulus - 1
                        \/ r.numSubmitted < subm)
       /\ serviced' = serviced + 1
       /\ lastOp' = "serviceInterrupt"
       /\ UNCHANGED <<probe, rdOther, session>>
       /\ UNCHANGED <<outIndex, bufferArrayVirt, produced, opened, rd, io,
                      delivered, nStart>>

\* The handler, from spin_lock_irqsave to wake_up_interruptible.
serviceInterrupt ==
    /\ serviceInterrupt_locked
    /\ wq' = WakeUp(wq)

\* An MSI raised by a completion is delivered.
DeviceInterrupt ==
    /\ irqPending > 0
    /\ irqPending' = irqPending - 1
    /\ serviceInterrupt

\* The handler is registered IRQF_SHARED: it also runs when the line fires for
\* a reason other than a completion of this device.
SharedLineInterrupt ==
    /\ irqPending' = irqPending
    /\ serviceInterrupt

\* ------------------------------------------------------------ open

\* ape->numAvailable = ape->outIndex = ape->numSubmitted = 0
cdevOpen ==
    /\ numAvailable' = 0
    /\ outIndex' = 0
    /\ numSubmitted' = 0
    /\ opened' = TRUE
    /\ lastOp' = "cdevOpen"
    /\ session' = [session EXCEPT !.opens = @ + 1, !.started = FALSE]
    /\ UNCHANGED <<probe, rdOther, wq>>
    /\ UNCHANGED <<bar0, bufferArrayVirt, devQueue, irqPending, produced, rd, io,
                   delivered, serviced, nStart, wrapped>>

\* ------------------------------------------------------------ pcieProbe, pcieRemove

\* The steps of pcieProbe that can fail, in order.  "mask" acquires nothing.
ProbeSteps ==
    <<"ape", "device", "msi", "regions", "mask", "irq", "bars", "pool", "chrdev", "cdev">>

\* pcieProbe is entered: nothing acquired; ape->lock and ape->wq are not
\* initialised.
ProbeEntered ==
    [pc |-> "probe", next |-> 1, got |-> <<>>, held |-> <<>>, released |-> <<>>,
     todo |-> <<>>, rc |-> 0, alreadyInUse |-> FALSE, wqInit |-> FALSE,
     lockInit |-> FALSE]

\* The releases from label err_cdev_add down to kfree(ape), in the order of
\* the labels.
UnwindChain == <<"chrdev", "pool", "bars", "irq", "regions", "msi", "device", "ape">>

\* The position in UnwindChain of the label a failing step jumps to: cdev_add
\* -> err_cdev_add, alloc_chrdev_region -> err_cdev_alloc, pci_alloc_consistent
\* -> err_buf_alloc, mapBars -> err_map, request_irq -> err_irq, the DMA mask ->
\* err_mask, pci_request_regions -> err_regions, pci_enable_msi -> err_msi,
\* pci_enable_device -> err_enable, kzalloc -> err_ape.
UnwindLabel(step) ==
    CASE step = "cdev"    -> 1
      [] step = "chrdev"  -> 2
      [] step = "pool"    -> 3
      [] step = "bars"    -> 4
      [] step = "irq"     -> 5
      [] step = "mask"    -> 5
      [] step = "regions" -> 6
      [] step = "msi"     -> 7
      [] step = "device"  -> 8
      [] step = "ape"     -> 9

\* if ( alreadyInUse ) pci_disable_device(dev): the device is disabled only
\* on the path where pci_request_regions failed.
UnwindSkipsDevice(alreadyInUse) == ~alreadyInUse

\* The releases the unwind performs from a label on.
UnwindFrom(label, alreadyInUse) ==
    SelectSeq(SubSeq(UnwindChain, label, Len(UnwindChain)),
              LAMBDA r : ~(r = "device" /\ UnwindSkipsDevice(alreadyInUse)))

Without(seq, r) == SelectSeq(seq, LAMBDA x : x # r)

ProbeFrame ==
    /\ UNCHANGED <<numAvailable, numSubmitted, outIndex, bar0, bufferArrayVirt,
                   devQueue, irqPending, produced, opened, rd, io, delivered,
                   serviced, nStart, wrapped, rdOther, wq, session>>

\* The next acquisition of pcieProbe succeeds.
pcieProbe_acquire ==
    /\ probe.pc = "probe"
    /\ probe.next <= Len(ProbeSteps)
    /\ LET step == ProbeSteps[probe.next]
       IN probe' = IF step = "mask"
                   THEN [probe EXCEPT !.next = @ + 1]
                   ELSE [probe EXCEPT !.next = @ + 1, !.got = Append(@, step),
                                      !.held = Append(@, step)]
    /\ lastOp' = "pcieProbe_acquire"
    /\ ProbeFrame

\* The next acquisition fails: rc is set and the code jumps to its label.
pcieProbe_fail ==
    /\ probe.pc = "probe"
    /\ probe.next <= Len(ProbeSteps)
    /\ LET step == ProbeSteps[probe.next]
           inUse == (step = "regions")
       IN probe' = [probe EXCEPT !.pc = "unwind", !.rc = -1, !.alreadyInUse = inUse,
                                 !.todo = UnwindFrom(UnwindLabel(step), inUse)]
    /\ lastOp' = "pcieProbe_fail"
    /\ ProbeFrame

\* One release of an unwind or of pcieRemove.
ReleaseNext(q) ==
    [q EXCEPT !.todo = Tail(@), !.held = Without(@, Head(q.todo)),
              !.released = Append(@, Head(q.todo))]

\* The unwind, one label at a time; return rc at the end.
pcieProbe_unwind ==
    /\ probe.pc = "unwind"
    /\ probe' = IF probe.todo = <<>>
                THEN [probe EXCEPT !.pc = "failed"]
                ELSE ReleaseNext(probe)
    /\ lastOp' = "pcieProbe_unwind"
    /\ ProbeFrame

\* init_waitqueue_head(&ape->wq); return 0
pcieProbe_initwq ==
    /\ probe.pc = "probe"
    /\ probe.next = Len(ProbeSteps) + 1
    /\ probe' = [probe EXCEPT !.pc = "bound", !.next = 0, !.wqInit = TRUE]
    /\ lastOp' = "pcieProbe_initwq"
    /\ ProbeFrame

\* pcieRemove: cdev_del, unregister_chrdev_region, pci_free_consistent,
\* unmapBars, free_irq, pci_release_regions, pci_disable_msi,
\* pci_disable_device, kfree
RemoveChain ==
    <<"cdev", "chrdev", "pool", "bars", "irq", "regions", "msi", "device", "ape">>

pcieRemove_entry ==
    /\ probe.pc = "bound"
    /\ ~opened
    /\ probe' = [probe EXCEPT !.pc = "remove", !.todo = RemoveChain]
    /\ lastOp' = "pcieRemove_entry"
    /\ ProbeFrame

pcieRemove_release ==
    /\ probe.pc = "remove"
    /\ probe' = IF probe.todo = <<>>
                THEN [probe EXCEPT !.pc = "removed"]
                ELSE ReleaseNext(probe)
    /\ lastOp' = "pcieRemove_release"
    /\ ProbeFrame

\* ------------------------------------------------------------ release

\* cdevRelease prints and returns 0: the counters, the device and the handler
\* stay as they are.  The kernel calls it when no call on the file is in flight.
cdevRelease ==
    /\ opened
    /\ rd.pc = "idle"
    /\ rdOther.pc = "idle"
    /\ io.pc = "idle"
    /\ opened' = FALSE
    /\ lastOp' = "cdevRelease"
    /\ UNCHANGED <<numAvailable, numSubmitted, outIndex, bar0, bufferArrayVirt,
                   devQueue, irqPending, produced, rd, io, delivered, serviced,
                   nStart, wrapped>>
    /\ UNCHANGED aux

\* ------------------------------------------------------------ cdevRead

\* A size check that lets BUF_SIZE - 1 through.
TooSmallOffByOne(count) == count < BUF_SIZE - 1

\* if ( count < BUF_SIZE )
TooSmall(count) == count < BUF_SIZE

\* Entry: the size check, then the call reaches the wait.
cdevRead_entry(count) ==
    /\ opened
    /\ rd.pc = "idle"
    /\ rd' = IF TooSmall(count)
             THEN [RdIdle EXCEPT !.count = count, !.ret = "EINVAL"]
             ELSE [RdIdle EXCEPT !.count = count, !.pc = "wait"]
    /\ lastOp' = "cdevRead_entry"
    /\ UNCHANGED aux
    /\ UNCHANGED <<numAvailable, numSubmitted, outIndex, bar0, bufferArrayVirt,
                   devQueue, irqPending, produced, opened, io, delivered, serviced,
                   nStart, wrapped>>

\* wait_event_interruptible(ape->wq, ape->numAvailable > 0) returns 0.
cdevRead_wait ==
    /\ rd.pc = "wait"
    /\ numAvailable > 0
    /\ rd' = [rd EXCEPT !.pc = "copy"]
    /\ lastOp' = "cdevRead_wait"
    /\ UNCHANGED aux
    /\ UNCHANGED <<numAvailable, numSubmitted, outIndex, bar0, bufferArrayVirt,
                   devQueue, irqPending, produced, opened, io, delivered, serviced,
                   nStart, wrapped>>

\* A signal arrives while the call is blocked: wait_event_interruptible
\* returns -ERESTARTSYS.  cdevRead does not look at the value and goes on.
cdevRead_signal ==
    /\ rd.pc = "wait"
    /\ numAvailable = 0
    /\ rd' = [rd EXCEPT !.pc = "copy", !.sig = TRUE]
    /\ lastOp' = "cdevRead_signal"
    /\ UNCHANGED aux
    /\ UNCHANGED <<numAvailable, numSubmitted, outIndex, bar0, bufferArrayVirt,
                   devQueue, irqPending, produced, opened, io, delivered, serviced,
                   nStart, wrapped>>

\* rc = copy_to_user(buf, ape->bufferArrayVirt[ape->outIndex].data, BUF_SIZE):
\* the bytes not copied, 0 on success.  A bad user address copies nothing.
cdevRead_copy(fault) ==
    /\ rd.pc = "copy"
    /\ rd' = IF fault
             THEN [rd EXCEPT !.pc = "lock", !.rc = BUF_SIZE]
             ELSE [rd EXCEPT !.pc = "lock", !.rc = 0, !.buf = bufferArrayVirt[outIndex]]
    /\ lastOp' = "cdevRead_copy"
    /\ UNCHANGED aux
    /\ UNCHANGED <<numAvailable, numSubmitted, outIndex, bar0, bufferArrayVirt,
                   devQueue, irqPending, produced, opened, io, delivered, serviced,
                   nStart, wrapped>>

\* A reader that skips a slot.
AdvanceOutTwo(out) == MaskIndex(U32(out + 2))

\* ape->outIndex++; ape->outIndex &= NUM_BUFS - 1
AdvanceOut(out) == MaskIndex(U32(out + 1))

\* A reader that counts its re-submission twice.
ResubmitCountTwice(subm) == U32(subm + 2)

\* ape->numSubmitted++ of the read path
ResubmitCount(subm) == U32(subm + 1)

\* A reader that does not give up the frame it returned.
ConsumeAvailableNone(avail) == avail

\* ape->numAvailable-- of the read path
ConsumeAvailable(avail) == U32(avail - 1)

\* The locked section and the return: re-submit the slot at outIndex, advance
\* the ring, return BUF_SIZE whatever copy_to_user and the wait returned.
cdevRead_locked ==
    /\ rd.pc = "lock"
    /\ LET hw == submitDmaReq(HW, SlotAddr(outIndex), NumTLPs)
       IN /\ bar0' = hw.bar
          /\ devQueue' = hw.q
    /\ numSubmitted' = ResubmitCount(numSubmitted)
    /\ outIndex' = AdvanceOut(outIndex)
    /\ numAvailable' = ConsumeAvailable(numAvailable)
    /\ wrapped' = (wrapped \/ numAvailable = 0 \/ numSubmitted = U32Modulus - 1)
    /\ rd' = [rd EXCEPT !.pc = "idle", !.ret = "BUF_SIZE"]
    /\ delivered' = Append(delivered, rd.buf)
    /\ lastOp' = "cdevRead_locked"
    /\ UNCHANGED aux
    /\ UNCHANGED <<bufferArrayVirt, irqPending, produced, opened, io, serviced, nStart>>


\* ------------------------------------------------------------ cdevIOCtl

Cmd(op, reg, val) == [op |-> op, reg |-> reg, val |-> val]

\* case FPGALINK_CMDLIST: the list is copied in; while ( numCmds ) starts.
cdevIOCtl_entry(cmds) ==
    /\ opened
    /\ io.pc = "idle"
    /\ io' = IF Len(cmds) = 0
             THEN [IoIdle EXCEPT !.ret = "0"]
             ELSE [pc |-> "run", cmds |-> cmds, i |-> 1, ret |-> "none"]
    /\ lastOp' = "cdevIOCtl_entry"
    /\ UNCHANGED aux
    /\ UNCHANGED <<numAvailable, numSubmitted, outIndex, bar0, bufferArrayVirt,
                   devQueue, irqPending, produced, opened, rd, delivered, serviced,
                   nStart, wrapped>>

\* ucp++; numCmds--; and return 0 after the last command
IoAdvance(cur) ==
    IF cur.i = Len(cur.cmds)
    THEN [cur EXCEPT !.pc = "idle", !.i = 0, !.ret = "0"]
    ELSE [cur EXCEPT !.i = @ + 1]

\* kc.op == OP_RD: put_user(ioread32(regSpace + reg), &ucp->val)
cdevIOCtl_RD ==
    /\ io.pc = "run"
    /\ io.cmds[io.i].op = OP_RD
    /\ io' = IoAdvance([io EXCEPT !.cmds[io.i].val = bar0[RegOffset(io.cmds[io.i].reg)]])
    /\ lastOp' = "cdevIOCtl_RD"
    /\ UNCHANGED aux
    /\ UNCHANGED <<numAvailable, numSubmitted, outIndex, bar0, bufferArrayVirt,
                   devQueue, irqPending, produced, opened, rd, delivered, serviced,
                   nStart, wrapped>>

\* kc.op == OP_WR: iowrite32(kc.val, regSpace + reg)
cdevIOCtl_WR ==
    /\ io.pc = "run"
    /\ io.cmds[io.i].op = OP_WR
    /\ LET hw == iowrite32(HW, io.cmds[io.i].val, RegOffset(io.cmds[io.i].reg))
       IN /\ bar0' = hw.bar
          /\ devQueue' = hw.q
    /\ io' = IoAdvance(io)
    /\ lastOp' = "cdevIOCtl_WR"
    /\ UNCHANGED aux
    /\ UNCHANGED <<numAvailable, numSubmitted, outIndex, bufferArrayVirt,
                   irqPending, produced, opened, rd, delivered, serviced, nStart,
                   wrapped>>

\* ape->numSubmitted = 1 of the START command
StartSubmitted == 1

\* kc.op == OP_SD: ape->numAvailable = ape->outIndex = 0; ape->numSubmitted = 1;
\* submitDmaReq(ape, ape->bufferArrayBus, BUF_SIZE/128)
cdevIOCtl_SD_stores ==
    /\ io.pc = "run"
    /\ io.cmds[io.i].op = OP_SD
    /\ numAvailable' = 0
    /\ outIndex' = 0
    /\ numSubmitted' = StartSubmitted
    /\ LET hw == submitDmaReq(HW, bufferArrayBus, NumTLPs)
       IN /\ bar0' = hw.bar
          /\ devQueue' = hw.q
    /\ io' = IoAdvance(io)
    /\ serviced' = 0
    /\ nStart' = nStart + 1
    /\ lastOp' = "cdevIOCtl_SD"
    /\ UNCHANGED <<probe, rdOther, wq>>
    /\ UNCHANGED <<bufferArrayVirt, irqPending, produced, opened, rd, delivered,
                   wrapped>>

\* The START command in one step.
cdevIOCtl_SD ==
    /\ cdevIOCtl_SD_stores
    /\ session' = [session EXCEPT !.started = TRUE]

\* The START command in one step, with the frame and read counts at which the
\* session's stream begins noted.
cdevIOCtl_SD_session ==
    /\ cdevIOCtl_SD_stores
    /\ session' = [session EXCEPT !.started = TRUE, !.mark = produced,
                                   !.base = Len(delivered)]

\* The START command store by store.  cdevIOCtl takes no lock, so the handler
\* and a reader on another CPU run between any two of its stores.
START_step(from, to) ==
    /\ io.pc = from
    /\ io.cmds[io.i].op = OP_SD
    /\ io' = [io EXCEPT !.pc = to]

\* Descriptors the device has been handed so far.
EverQueued == Len(devQueue) + produced

\* ape->numAvailable = ape->outIndex = 0: the store to outIndex
START_outIndex ==
    /\ START_step("run", "sd_avail")
    /\ outIndex' = 0
    /\ session' = [session EXCEPT !.isr = serviced]
    /\ lastOp' = "START_outIndex"
    /\ UNCHANGED <<numAvailable, numSubmitted, bar0, bufferArrayVirt, devQueue,
                   irqPending, produced, opened, rd, delivered, serviced, nStart,
                   wrapped, probe, rdOther, wq>>

\* ape->numAvailable = ape->outIndex = 0: the store to numAvailable
START_numAvailable ==
    /\ START_step("sd_avail", "sd_subm")
    /\ numAvailable' = 0
    /\ lastOp' = "START_numAvailable"
    /\ UNCHANGED <<numSubmitted, outIndex, bar0, bufferArrayVirt, devQueue,
                   irqPending, produced, opened, rd, delivered, serviced, nStart,
                   wrapped>>
    /\ UNCHANGED aux

\* ape->numSubmitted = 1
START_numSubmitted ==
    /\ START_step("sd_subm", "sd_base")
    /\ numSubmitted' = StartSubmitted
    /\ lastOp' = "START_numSubmitted"
    /\ UNCHANGED <<numAvailable, outIndex, bar0, bufferArrayVirt, devQueue,
                   irqPending, produced, opened, rd, delivered, serviced, nStart,
                   wrapped>>
    /\ UNCHANGED aux

\* submitDmaReq(ape, ape->bufferArrayBus, ...): iowrite32((u32)addr, DMABASE(regSpace))
START_base ==
    /\ START_step("sd_base", "sd_ctrl")
    /\ LET hw == iowrite32(HW, U32(bufferArrayBus), DMABASE)
       IN /\ bar0' = hw.bar
          /\ devQueue' = hw.q
    /\ session' = [session EXCEPT !.queued = EverQueued]
    /\ lastOp' = "START_base"
    /\ UNCHANGED <<numAvailable, numSubmitted, outIndex, bufferArrayVirt,
                   irqPending, produced, opened, rd, delivered, serviced, nStart,
                   wrapped, probe, rdOther, wq>>

\* submitDmaReq(ape, ape->bufferArrayBus, ...): iowrite32(numTLPs, DMACTRL(regSpace)),
\* then ucp++; numCmds--
START_ctrl ==
    /\ io.pc = "sd_ctrl"
    /\ LET hw == iowrite32(HW, NumTLPs, DMACTRL)
       IN /\ bar0' = hw.bar
          /\ devQueue' = hw.q
    /\ io' = IoAdvance([io EXCEPT !.pc = "run"])
    /\ serviced' = 0
    /\ nStart' = nStart + 1
    /\ session' = [session EXCEPT !.started = TRUE, !.mark = produced,
                                   !.base = Len(delivered)]
    /\ lastOp' = "START_ctrl"
    /\ UNCHANGED <<numAvailable, numSubmitted, outIndex, bufferArrayVirt,
                   irqPending, produced, opened, rd, delivered, wrapped, probe,
                   rdOther, wq>>

\* Unrecognised operation: return -EFAULT.  The commands before it have run.
cdevIOCtl_unknown ==
    /\ io.pc = "run"
    /\ io.cmds[io.i].op \notin {OP_RD, OP_WR, OP_SD}
    /\ io' = [io EXCEPT !.pc = "idle", !.ret = "EFAULT"]
    /\ lastOp' = "cdevIOCtl_unknown"
    /\ UNCHANGED aux
    /\ UNCHANGED <<numAvailable, numSubmitted, outIndex, bar0, bufferArrayVirt,
                   devQueue, irqPending, produced, opened, rd, delivered, serviced,
                   nStart, wrapped>>

\* ------------------------------------------------------------ intended usage

Vals == 0 .. MaxVal

\* Application registers: word offsets 2n+1 for n >= 2.
AppRegs == 2 .. MaxReg

\* Configure-then-start: an application register is set up, then START.
IntendedBatches ==
    {<<Cmd(OP_SD, 0, 0)>>}
      \cup {<<Cmd(OP_WR, 2, v), Cmd(OP_SD, 0, 0)>> : v \in 1 .. MaxVal}

\* One open.
Open == ~opened /\ cdevOpen

\* One START, issued while the device is idle.
Control == \E cmds \in IntendedBatches : nStart = 0 /\ cdevIOCtl_entry(cmds)

Complete == produced < MaxFrames /\ DeviceComplete

\* A single reader, no signals, no copy faults.
Read == cdevRead_entry(BUF_SIZE)

\* copy_to_user succeeds.
CopyOk == cdevRead_copy(FALSE)

Next ==
    \/ Open
    \/ Control
    \/ cdevIOCtl_WR
    \/ cdevIOCtl_SD
    \/ Complete
    \/ DeviceInterrupt
    \/ Read
    \/ cdevRead_wait
    \/ CopyOk
    \/ cdevRead_locked

Spec == Init /\ [][Next]_vars


\* ------------------------------------------------------------ any usage

\* What a caller may pass as count.
ReadCounts == {0, BUF_SIZE - 1, BUF_SIZE}

\* An op-code that is none of OP_RD, OP_WR, OP_SD.
BadCmd == Cmd("99", 0, 0)

\* Command lists of any kind: the intended ones, a register round trip, and
\* lists that hold an unknown op-code first, after a WRITE, after a START, and
\* before commands that are never reached.
AnyBatches ==
    IntendedBatches
      \cup {<<Cmd(OP_WR, r, MaxVal), Cmd(OP_RD, r, 0)>> : r \in AppRegs}
      \cup {<<BadCmd>>,
            <<Cmd(OP_WR, 2, MaxVal), BadCmd>>,
            <<Cmd(OP_SD, 0, 0), BadCmd>>,
            <<Cmd(OP_RD, 2, 0), BadCmd, Cmd(OP_SD, 0, 0)>>}

\* One control call in a behaviour.
ControlAny == \E cmds \in AnyBatches : io.ret = "none" /\ cdevIOCtl_entry(cmds)

CompleteAny == produced < MaxFaultFrames /\ DeviceComplete

\* The shared line fires without a completion of this device.
Spurious == serviced < MaxFaultServiced /\ SharedLineInterrupt

ReadAny ==
    \E count \in ReadCounts : Len(delivered) < MaxFaultReads /\ cdevRead_entry(count)

\* The user address is bad.
CopyFault == cdevRead_copy(TRUE)

NextFaults ==
    \/ Open
    \/ ControlAny
    \/ cdevIOCtl_RD
    \/ cdevIOCtl_WR
    \/ cdevIOCtl_SD
    \/ cdevIOCtl_unknown
    \/ CompleteAny
    \/ DeviceInterrupt
    \/ Spurious
    \/ ReadAny
    \/ cdevRead_wait
    \/ cdevRead_signal
    \/ CopyOk
    \/ CopyFault
    \/ cdevRead_locked

SpecFaults == Init /\ [][NextFaults]_vars

\* ------------------------------------------------------------ regions

\* Slots with a descriptor outstanding at the device.
QueuedSlots == { SlotOf(devQueue[i].addr) : i \in DOMAIN devQueue }

\* The Available region: numAvailable slots starting at outIndex.
AvailableRegion == { MaskIndex(outIndex + k) : k \in 0 .. (numAvailable - 1) }

\* ------------------------------------------------------------ claims, intended usage

\* C1: under intended usage, in every reachable state of any interleaving of
\* serviceInterrupt and cdevRead, numAvailable + numSubmitted <= NUM_BUFS and
\* outIndex < NUM_BUFS, and no counter has wrapped around.
C1_RingBounds ==
    /\ numAvailable + numSubmitted <= NUM_BUFS
    /\ outIndex < NUM_BUFS
    /\ ~wrapped

\* C1 witness: the reader has just consumed a frame of the second lap while
\* the handler has credited more than a lap of completions.
C1_Witness ==
    /\ lastOp = "cdevRead_locked"
    /\ Len(delivered) > NUM_BUFS
    /\ serviced > NUM_BUFS
    /\ numAvailable + numSubmitted = NUM_BUFS

\* C2: under intended usage, no slot has more than one descriptor outstanding
\* at the device, and no slot of the Available region is outstanding at it.
C2_SlotOwnership ==
    /\ Cardinality(QueuedSlots) = Len(devQueue)
    /\ AvailableRegion \cap QueuedSlots = {}

\* C2 witness: the reader is copying the slot at outIndex while the device
\* holds descriptors for other slots, on the second lap of the ring.
C2_Witness ==
    /\ rd.pc = "copy"
    /\ numAvailable > 1
    /\ devQueue # <<>>
    /\ produced > NUM_BUFS

\* C3: with a single reader and intended usage, the frames returned by the
\* successful read calls are a prefix of the frames the device produced since
\* START: frame i of the device is the i-th frame delivered.
C3_DeliveredPrefix ==
    /\ Len(delivered) <= produced
    /\ \A i \in DOMAIN delivered : delivered[i] = i

\* C3 witness: more frames than the ring has slots have been delivered, so
\* slots have been re-used by the device.
C3_Witness ==
    /\ Len(delivered) > NUM_BUFS
    /\ rd.ret = "BUF_SIZE"


\* The Free region by the counters: the slots that follow the Available and
\* the Submitted slots in ring order from outIndex.
FreeCount == NUM_BUFS - numAvailable - numSubmitted

FreeRegion ==
    { MaskIndex(outIndex + numAvailable + numSubmitted + k) : k \in 0 .. (FreeCount - 1) }

\* C8: when serviceInterrupt is entered with numSubmitted > 0, on return
\* numSubmitted + numAvailable = NUM_BUFS, outIndex is unchanged, and the
\* descriptors it queued are those of the formerly Free slots, each once, in
\* ascending ring order from (outIndex + numAvailable) mod NUM_BUFS, none of
\* them a slot the device already held or an Available one.
C8_RefillSaturates ==
    [][ (lastOp' = "serviceInterrupt" /\ numSubmitted > 0) =>
          /\ numSubmitted' + numAvailable' = NUM_BUFS
          /\ outIndex' = outIndex
          /\ Len(devQueue') = Len(devQueue) + FreeCount
          /\ SubSeq(devQueue', 1, Len(devQueue)) = devQueue
          /\ \A k \in 1 .. FreeCount :
                devQueue'[Len(devQueue) + k] =
                    [addr |-> SlotAddr(MaskIndex(outIndex' + numAvailable' + (k - 1))),
                     tlps |-> NumTLPs]
          /\ { SlotOf(devQueue'[Len(devQueue) + k].addr) : k \in 1 .. FreeCount } = FreeRegion
          /\ FreeRegion \cap QueuedSlots = {}
          /\ FreeRegion \cap AvailableRegion' = {}
      ]_vars

\* C9 as stated: after open, a control list ending in START and the first
\* completion interrupt, the ring is (numSubmitted, numAvailable, outIndex) =
\* (NUM_BUFS, 0, 0) when serviceInterrupt returns.
C9_Original ==
    (opened /\ nStart = 1 /\ lastOp = "serviceInterrupt" /\ serviced = 1) =>
        <<numSubmitted, numAvailable, outIndex>> = <<NUM_BUFS, 0, 0>>

\* C9 amended: after open, a control list ending in START and the first
\* completion interrupt, the ring is (numSubmitted, numAvailable, outIndex) =
\* (NUM_BUFS - 1, 1, 0) when serviceInterrupt returns: the completed frame is
\* Available and the other NUM_BUFS - 1 slots are submitted.
C9_ColdStart ==
    (opened /\ nStart = 1 /\ lastOp = "serviceInterrupt" /\ serviced = 1) =>
        <<numSubmitted, numAvailable, outIndex>> = <<NUM_BUFS - 1, 1, 0>>

\* C9 witness: the first interrupt after START has just been serviced.
C9_Witness ==
    /\ opened
    /\ nStart = 1
    /\ lastOp = "serviceInterrupt"
    /\ serviced = 1
    /\ produced = 1


\* ------------------------------------------------------------ claims, any usage

ReadOps == {"cdevRead_entry", "cdevRead_wait", "cdevRead_signal", "cdevRead_copy",
            "cdevRead_locked"}

ControlOps == {"cdevIOCtl_RD", "cdevIOCtl_WR", "cdevIOCtl_SD", "cdevIOCtl_unknown"}

\* C4: a call of serviceInterrupt that finds numSubmitted = 0 returns without
\* changing numAvailable, numSubmitted or outIndex and without submitting a
\* descriptor.
C4_SpuriousIgnored ==
    [][ (lastOp' = "serviceInterrupt" /\ numSubmitted = 0) =>
          UNCHANGED <<numAvailable, numSubmitted, outIndex, devQueue>> ]_vars

\* C5: a read call that a signal interrupted while it was blocked returns the
\* interrupted-system-call error, and none of its steps changes numAvailable,
\* numSubmitted or outIndex or submits a descriptor.
C5_SignalLeavesRing ==
    [][ (rd.pc # "idle" /\ rd.sig /\ lastOp' \in ReadOps) =>
          /\ UNCHANGED <<numAvailable, numSubmitted, outIndex, devQueue>>
          /\ rd'.pc = "idle" => rd'.ret = "EINTR" ]_vars

\* C6: a read call whose copy to user memory could not complete returns
\* bad-address and does not advance the slot: outIndex, numAvailable and
\* numSubmitted keep their values and the slot is not re-submitted.
C6_CopyFaultLeavesRing ==
    [][ (rd.pc = "lock" /\ ~rd.sig /\ rd.rc # 0 /\ lastOp' = "cdevRead_locked") =>
          /\ UNCHANGED <<numAvailable, numSubmitted, outIndex, devQueue>>
          /\ rd'.ret = "EFAULT" ]_vars

\* C7: for every count < BUF_SIZE and every ring state, cdevRead returns
\* invalid-argument without blocking, and numAvailable, numSubmitted, outIndex
\* and the device's outstanding descriptors are unchanged.
C7_ShortReadRejected ==
    [][ (lastOp' = "cdevRead_entry" /\ rd'.count < BUF_SIZE) =>
          /\ rd'.pc = "idle"
          /\ rd'.ret = "EINVAL"
          /\ UNCHANGED <<numAvailable, numSubmitted, outIndex, devQueue, bar0>> ]_vars

\* C7 witness: a read of BUF_SIZE - 1 bytes has been rejected while frames
\* were available and descriptors outstanding.
C7_Witness ==
    /\ lastOp = "cdevRead_entry"
    /\ rd.count = BUF_SIZE - 1
    /\ rd.ret = "EINVAL"
    /\ numAvailable > 0
    /\ devQueue # <<>>

\* A command list that holds an unknown op-code fails.
Fails(cmds) == \E i \in DOMAIN cmds : cmds[i].op \notin {OP_RD, OP_WR, OP_SD}

\* C10: a command list that fails on an unknown op-code has no side effect on
\* the ring or on the device registers, wherever the unknown op-code stands:
\* no step of such a call changes the counters, BAR0 or the device's queue.
C10_FailedBatchNoEffect ==
    [][ (io.pc = "run" /\ Fails(io.cmds) /\ lastOp' \in ControlOps) =>
          UNCHANGED <<numAvailable, numSubmitted, outIndex, bar0, devQueue>> ]_vars

NoStartBatches ==
    {<<Cmd(OP_WR, r, v)>> : r \in Regs, v \in 1 .. MaxVal}
      \cup {<<Cmd(OP_RD, r, 0)>> : r \in Regs}

ControlNoStart ==
    \E cmds \in NoStartBatches : Len(devQueue) < MaxNoStartQueue /\ cdevIOCtl_entry(cmds)

ReadBounded == Len(delivered) < MaxFaultReads /\ cdevRead_entry(BUF_SIZE)

NextNoStart ==
    \/ Open
    \/ ControlNoStart
    \/ cdevIOCtl_RD
    \/ cdevIOCtl_WR
    \/ CompleteAny
    \/ DeviceInterrupt
    \/ ReadBounded
    \/ cdevRead_wait
    \/ CopyOk
    \/ cdevRead_locked

SpecNoStart == Init /\ [][NextNoStart]_vars

\* C11: as long as no START command has been executed, open, read, READ and
\* WRITE of any register trigger no DMA transfer on the device, no interrupt
\* is serviced and no read call returns a frame.
C11_OnlyStartStarts ==
    nStart = 0 =>
        /\ devQueue = <<>>
        /\ produced = 0
        /\ serviced = 0
        /\ delivered = <<>>

\* ------------------------------------------------------------ open/close cycles

\* open, at most MaxOpens times.
OpenAgain == ~opened /\ session.opens < MaxOpens /\ cdevOpen

\* One START per open.
ControlSession == ~session.started /\ cdevIOCtl_entry(<<Cmd(OP_SD, 0, 0)>>)

ReadReopen == Len(delivered) < MaxReopenFrames /\ cdevRead_entry(BUF_SIZE)

CompleteReopen == produced < MaxReopenFrames /\ DeviceComplete

NextReopen ==
    \/ OpenAgain
    \/ cdevRelease
    \/ ControlSession
    \/ cdevIOCtl_SD_session
    \/ CompleteReopen
    \/ DeviceInterrupt
    \/ ReadReopen
    \/ cdevRead_wait
    \/ CopyOk
    \/ cdevRead_locked

SpecReopen == Init /\ [][NextReopen]_vars

\* C12: after a close and a further open, the open has reset the counters to
\* zero, and once START has been issued in the new session the reads deliver
\* the frames produced after that START, in order, with numAvailable +
\* numSubmitted <= NUM_BUFS and no slot outstanding at the device twice.
C12_ReopenUsable ==
    /\ (session.opens > 1 /\ lastOp = "cdevOpen") =>
            <<numAvailable, outIndex, numSubmitted>> = <<0, 0, 0>>
    /\ (session.opens > 1 /\ session.started) =>
            /\ \A i \in (session.base + 1) .. Len(delivered) :
                    delivered[i] = session.mark + (i - session.base)
            /\ numAvailable + numSubmitted <= NUM_BUFS
            /\ Cardinality(QueuedSlots) = Len(devQueue)

\* ------------------------------------------------------------ START store by store

\* One START, on an idle device.
ControlStart == nStart = 0 /\ cdevIOCtl_entry(<<Cmd(OP_SD, 0, 0)>>)

NextStart ==
    \/ Open
    \/ ControlStart
    \/ START_outIndex
    \/ START_numAvailable
    \/ START_numSubmitted
    \/ START_base
    \/ START_ctrl
    \/ CompleteAny
    \/ DeviceInterrupt
    \/ Spurious
    \/ ReadBounded
    \/ cdevRead_wait
    \/ CopyOk
    \/ cdevRead_locked

SpecStart == Init /\ [][NextStart]_vars

\* C13: START is atomic with respect to the interrupt handler: no call of
\* serviceInterrupt runs between START's first store to the ring and its
\* submission of slot 0, and when START completes the ring is
\* (numAvailable, numSubmitted, outIndex) = (0, 1, 0) with slot 0 submitted.
C13_StartAtomic ==
    [][ lastOp' = "START_ctrl" =>
          /\ serviced = session.isr
          /\ <<numAvailable', numSubmitted', outIndex'>> = <<0, 1, 0>>
          /\ devQueue' # <<>>
          /\ devQueue'[Len(devQueue')] = [addr |-> SlotAddr(0), tlps |-> NumTLPs] ]_vars

\* C19: the two register writes of one submitDmaReq call pair up: between
\* the write of the base register and the write of the control register no
\* other submitDmaReq call writes a register, so the transfer the control
\* write starts targets the address the same call wrote.
C19_DescriptorPairing ==
    [][ lastOp' = "START_ctrl" =>
          /\ EverQueued = session.queued
          /\ bar0[DMABASE] = SlotAddr(0)
          /\ devQueue'[Len(devQueue')].addr = SlotAddr(0) ]_vars

\* ------------------------------------------------------------ attach and detach

Holds(r) == \E i \in DOMAIN probe.held : probe.held[i] = r

\* The handler is on the shared line from request_irq to free_irq and the line
\* fires.  With BAR0 mapped the handler runs as ever; with ape->bar[0] NULL its
\* first iowrite32 faults after the two counter updates.
serviceInterrupt_attached ==
    /\ Holds("irq")
    /\ probe.pc # "oops"
    /\ serviced < MaxFaultServiced
    /\ IF Holds("bars")
       THEN SharedLineInterrupt
       ELSE /\ numAvailable' = CreditAvailable(numAvailable)
            /\ numSubmitted' = CreditSubmitted(numSubmitted)
            /\ wrapped' = TRUE
            /\ serviced' = serviced + 1
            /\ probe' = [probe EXCEPT !.pc = "oops"]
            /\ lastOp' = "serviceInterrupt"
            /\ UNCHANGED <<outIndex, bar0, bufferArrayVirt, devQueue, irqPending,
                           produced, opened, rd, io, delivered, nStart, rdOther,
                           wq, session>>

\* pcieProbe is entered for a device the PCI core has matched.
InitProbe ==
    /\ numAvailable = 0
    /\ numSubmitted = 0
    /\ outIndex = 0
    /\ bar0 = [o \in Offsets |-> 0]
    /\ bufferArrayVirt = [slot \in Slots |-> 0]
    /\ devQueue = <<>>
    /\ irqPending = 0
    /\ produced = 0
    /\ opened = FALSE
    /\ rd = RdIdle
    /\ io = IoIdle
    /\ delivered = <<>>
    /\ serviced = 0
    /\ nStart = 0
    /\ wrapped = FALSE
    /\ lastOp = "pcieProbe"
    /\ probe = ProbeEntered
    /\ rdOther = RdIdle
    /\ wq = WqIdle
    /\ session = SessionNone

NextProbe ==
    \/ pcieProbe_acquire
    \/ pcieProbe_fail
    \/ pcieProbe_unwind
    \/ pcieProbe_initwq
    \/ pcieRemove_entry
    \/ pcieRemove_release
    \/ serviceInterrupt_attached

SpecProbe == InitProbe /\ [][NextProbe]_vars

Reverse(seq) == [i \in 1 .. Len(seq) |-> seq[Len(seq) + 1 - i]]

\* C14: when pcieProbe returns an error, every resource an earlier step
\* acquired has been released, in reverse order of acquisition.
C14_ProbeUnwinds ==
    probe.pc = "failed" =>
        /\ probe.held = <<>>
        /\ probe.released = Reverse(probe.got)

\* A release of this step frees the DMA pool or unmaps BAR0.
ReleasesPoolOrBars ==
    /\ Len(probe'.released) > Len(probe.released)
    /\ probe'.released[Len(probe'.released)] \in {"pool", "bars"}

\* C20: serviceInterrupt never runs its locked section or its wake-up before
\* ape->lock and ape->wq have been initialised, and on every unwind and remove
\* path the handler has been unregistered when the DMA pool or the BAR
\* mapping is released.
C20_InitOrder ==
    [][ /\ lastOp' = "serviceInterrupt" => (probe.wqInit /\ probe.lockInit)
        /\ ReleasesPoolOrBars => ~Holds("irq") ]_vars

\* ------------------------------------------------------------ register round trip

\* The smallest kc.reg whose doubling leaves the word: 1 + kc.reg * 2 wraps.
HalfWord == 2 ^ (WordBits - 1)

\* Register numbers from 2 up: the first application registers and the first
\* ones past the wrap.
RoundTripRegs == AppRegs \cup {HalfWord, HalfWord + 1}

\* Values written: small ones and the largest of the word.
RoundTripVals == Vals \cup {U32Modulus - 1}

RoundTripBatches ==
    {<<Cmd(OP_WR, r, v), Cmd(OP_RD, r, 0)>> : r \in RoundTripRegs, v \in RoundTripVals}

ControlRoundTrip ==
    \E cmds \in RoundTripBatches :
        Len(devQueue) < MaxNoStartQueue /\ cdevIOCtl_entry(cmds)

NextRoundTrip ==
    \/ Open
    \/ ControlRoundTrip
    \/ cdevIOCtl_WR
    \/ cdevIOCtl_RD
    \/ CompleteAny
    \/ DeviceInterrupt
    \/ ReadBounded
    \/ cdevRead_wait
    \/ CopyOk
    \/ cdevRead_locked

SpecRoundTrip == Init /\ [][NextRoundTrip]_vars

\* C15: for every register reg >= 2 and every value v, the list
\* [WRITE(reg, v), READ(reg)] returns v in the READ command's val, its two
\* commands touch only word offset 2 * reg + 1 of BAR0, start no transfer, and
\* leave numAvailable, numSubmitted and outIndex unchanged.
C15_RegisterRoundTrip ==
    [][ (io.pc = "run" /\ lastOp' \in {"cdevIOCtl_WR", "cdevIOCtl_RD"}) =>
          /\ \A o \in Offsets \ {2 * io.cmds[io.i].reg + 1} : bar0'[o] = bar0[o]
          /\ devQueue' = devQueue
          /\ UNCHANGED <<numAvailable, numSubmitted, outIndex>>
          /\ lastOp' = "cdevIOCtl_RD" => io'.cmds[2].val = io.cmds[1].val ]_vars

\* ------------------------------------------------------------ two readers

\* A second thread calls read on the same open file: cdevRead keeps nothing
\* per file and takes ape->lock only around its last section.  rd is the frame
\* of the thread that runs, rdOther the frame of the thread that does not; the
\* scheduler changes which one runs.
SwitchReader ==
    /\ rd' = rdOther
    /\ rdOther' = rd
    /\ rd # rdOther
    /\ lastOp' = "SwitchReader"
    /\ UNCHANGED <<probe, wq, session>>
    /\ UNCHANGED <<numAvailable, numSubmitted, outIndex, bar0, bufferArrayVirt,
                   devQueue, irqPending, produced, opened, io, delivered, serviced,
                   nStart, wrapped>>

NextTwoReaders ==
    \/ Open
    \/ ControlStart
    \/ cdevIOCtl_SD
    \/ CompleteAny
    \/ DeviceInterrupt
    \/ ReadBounded
    \/ cdevRead_wait
    \/ CopyOk
    \/ cdevRead_locked
    \/ SwitchReader

SpecTwoReaders == Init /\ [][NextTwoReaders]_vars

\* C16: with two threads in cdevRead at once, every frame is copied out by
\* exactly one of them, no slot is handed to the device twice for one
\* completion, and numAvailable never wraps.
C16_TwoReaders ==
    /\ \A i, j \in 1 .. Len(delivered) : i # j => delivered[i] # delivered[j]
    /\ Cardinality(QueuedSlots) = Len(devQueue)
    /\ ~wrapped

\* ------------------------------------------------------------ blocking and waking

MaxLiveReads == 2
MaxLiveAhead == 32

\* wait_event_interruptible(ape->wq, ape->numAvailable > 0) step by step, as
\* the kernel expands it: test the condition; if it fails, loop
\* { prepare_to_wait; test again; schedule } and finish_wait on the way out.
\* The first test fails.
cdevRead_wait_miss ==
    /\ rd.pc = "wait"
    /\ numAvailable = 0
    /\ rd' = [rd EXCEPT !.pc = "prep"]
    /\ lastOp' = "cdevRead_wait_miss"
    /\ UNCHANGED aux
    /\ UNCHANGED <<numAvailable, numSubmitted, outIndex, bar0, bufferArrayVirt,
                   devQueue, irqPending, produced, opened, io, delivered, serviced,
                   nStart, wrapped>>

\* prepare_to_wait: the task is put on ape->wq and marked as sleeping.
cdevRead_prepare_to_wait ==
    /\ rd.pc = "prep"
    /\ rd' = [rd EXCEPT !.pc = "recheck"]
    /\ wq' = [wq EXCEPT !.task = "queued"]
    /\ lastOp' = "cdevRead_prepare_to_wait"
    /\ UNCHANGED <<probe, rdOther, session>>
    /\ UNCHANGED <<numAvailable, numSubmitted, outIndex, bar0, bufferArrayVirt,
                   devQueue, irqPending, produced, opened, io, delivered, serviced,
                   nStart, wrapped>>

\* The test inside the loop: leave through finish_wait when a frame is there,
\* go to schedule() otherwise.
cdevRead_recheck ==
    /\ rd.pc = "recheck"
    /\ IF numAvailable > 0
       THEN /\ rd' = [rd EXCEPT !.pc = "copy"]
            /\ wq' = [wq EXCEPT !.task = "none"]
       ELSE /\ rd' = [rd EXCEPT !.pc = "sched"]
            /\ wq' = wq
    /\ lastOp' = "cdevRead_recheck"
    /\ UNCHANGED <<probe, rdOther, session>>
    /\ UNCHANGED <<numAvailable, numSubmitted, outIndex, bar0, bufferArrayVirt,
                   devQueue, irqPending, produced, opened, io, delivered, serviced,
                   nStart, wrapped>>

\* schedule(): the task runs again only once a wake-up has marked it
\* runnable, whether that happened before or after it went to sleep.
cdevRead_schedule ==
    /\ rd.pc = "sched"
    /\ wq.task = "woken"
    /\ rd' = [rd EXCEPT !.pc = "prep"]
    /\ lastOp' = "cdevRead_schedule"
    /\ UNCHANGED aux
    /\ UNCHANGED <<numAvailable, numSubmitted, outIndex, bar0, bufferArrayVirt,
                   devQueue, irqPending, produced, opened, io, delivered, serviced,
                   nStart, wrapped>>

\* The handler up to spin_unlock_irqrestore; the wake-up is still to come.
serviceInterrupt_unlock ==
    /\ irqPending > 0
    /\ ~wq.waking
    /\ irqPending' = irqPending - 1
    /\ serviceInterrupt_locked
    /\ wq' = [wq EXCEPT !.waking = TRUE]

\* wake_up_interruptible(&ape->wq), after the lock is released.
serviceInterrupt_wake ==
    /\ wq.waking
    /\ wq' = WakeUp([wq EXCEPT !.waking = FALSE])
    /\ lastOp' = "serviceInterrupt_wake"
    /\ UNCHANGED <<probe, rdOther, session>>
    /\ UNCHANGED <<numAvailable, numSubmitted, outIndex, bar0, bufferArrayVirt,
                   devQueue, irqPending, produced, opened, rd, io, delivered,
                   serviced, nStart, wrapped>>

\* The device completes what it was given; the run is cut after the frames
\* the reads can consume and a few more.
CompleteLive == produced < MaxLiveReads + MaxLiveAhead /\ DeviceComplete

ReadLive == Len(delivered) < MaxLiveReads /\ cdevRead_entry(BUF_SIZE)

\* The steps of a read call after its entry.
ReaderLive ==
    \/ cdevRead_wait
    \/ cdevRead_wait_miss
    \/ cdevRead_prepare_to_wait
    \/ cdevRead_recheck
    \/ cdevRead_schedule
    \/ CopyOk
    \/ cdevRead_locked

NextLive ==
    \/ Open
    \/ Control
    \/ cdevIOCtl_WR
    \/ cdevIOCtl_SD
    \/ CompleteLive
    \/ serviceInterrupt_unlock
    \/ serviceInterrupt_wake
    \/ ReadLive
    \/ ReaderLive

\* The device completes every descriptor, every interrupt is serviced to its
\* end, and a thread that can run does run.
SpecLive ==
    /\ Init
    /\ [][NextLive]_vars
    /\ WF_vars(CompleteLive)
    /\ WF_vars(serviceInterrupt_unlock)
    /\ WF_vars(serviceInterrupt_wake)
    /\ WF_vars(ReaderLive)

\* A reader about to sleep, or asleep, on a frame that is already there has a
\* wake-up behind it or ahead of it.
NoLostWakeUp ==
    (rd.pc = "sched" /\ numAvailable > 0) => (wq.task = "woken" \/ wq.waking)

\* Once every completion has been serviced the device holds a descriptor,
\* unless all NUM_BUFS frames are waiting for the reader.
DeviceKeptBusy ==
    (nStart > 0 /\ irqPending = 0) => (devQueue # <<>> \/ numAvailable >= NUM_BUFS)

\* C17: under intended usage, once START has been issued, with the device
\* completing every outstanding descriptor and every interrupt serviced, each
\* read call with count >= BUF_SIZE eventually returns BUF_SIZE; no wake-up is
\* lost between the reader's test of numAvailable and the handler's wake; and
\* the device is not left without a descriptor while numAvailable < NUM_BUFS.
C17_ReadReturns ==
    /\ [](NoLostWakeUp /\ DeviceKeptBusy)
    /\ (nStart > 0 /\ rd.pc # "idle") ~> (rd.pc = "idle" /\ rd.ret = "BUF_SIZE")

\* The handler's wake-up reached a reader that had found no frame and queued
\* itself.
C17_Witness ==
    /\ nStart > 0
    /\ rd.pc = "sched"
    /\ wq.task = "woken"

====
